---- MODULE Spec2Model ----
(***************************************************************************)
(* TypeTrack Pro front end: the live typing-session state machine of       *)
(* TypeTrackPro (frontend/app.js) and the data loaders of                  *)
(* LeaderboardComponent (frontend/components/leaderboard.js) and           *)
(* AnalyticsComponent, the timers and the new-record animations of        *)
(* LeaderboardComponent, the activity feed, the metrics formulas of        *)
(* calculateLocalMetrics and submitTest, the login and register forms, and *)
(* the functions of AnalyticsComponent: the statistics over                *)
(* this.data.history, the trend data, the progress chart, the exports and  *)
(* formatTime.                                                             *)
(*                                                                         *)
(* Non-finite numbers are fractions with denominator 0.  A field that is   *)
(* undefined in the source holds Undefined, or NoDifficulty where it is a  *)
(* string.                                                                 *)
(*                                                                         *)
(* Strings are sequences of one-character strings.  Instants are           *)
(* milliseconds, as Date arithmetic yields them.  An ISO timestamp made by *)
(* toISOString() and read back by new Date(..) keeps millisecond           *)
(* precision, so currentTest.startTime is kept as its millisecond value.   *)
(***************************************************************************)
EXTENDS Integers, Sequences, FiniteSets, Bags, TLC

\* ------------------------------------------------------------------ bounds
MaxInput == 1       \* longest value of the typing input that is enumerated
MaxTests == 2       \* prompts fetched successfully per page load
MaxPrompts == 2     \* /prompt requests awaiting their response
MaxGrace == 1       \* pending 1-second auto-submit callbacks
MaxSubmits == 2     \* /submit requests awaiting their response
NumEarly == 1       \* instants enumerated after page load, one second apart
NumLate == 1        \* instants enumerated past the timeout threshold
MaxRequests == 3    \* data requests issued per component
MaxReloads == 1     \* pending 2-second leaderboard reload timeouts
MaxEvents == 2      \* leaderboard_update events handled per page load
MaxItems == 11      \* items added to the activity feed
MaxLen == 3         \* longest typed string and prompt a function is applied to
MaxVal == 3         \* largest value in a series of the analytics functions
MaxN == 4           \* longest series of the analytics functions
MaxHistory == 10    \* longest history whose sessions differ in wpm only
MaxShort == 3       \* longest history whose sessions differ in other fields
MaxEmail == 5       \* longest value of the register-email field
MaxAuth == 1        \* /login and /register requests awaiting their response
MaxTrend == 31      \* longest history the trend data are calculated for
MaxSeconds == 130   \* largest numerator of the durations that are all formatted

\* --------------------------------------------------------------- constants
timeoutDuration == 300000
tickPeriod == 1000
graceDelay == 1000

Null == -1
NoTest == [none |-> TRUE]

Alphabet == {"a", "b"}
Prompts == {<<"a">>}

\* the values one input event can leave in the typing field: a character
\* typed at the end, or the last character deleted (paste is prevented)
InputValues(value) ==
    {Append(value, c) : c \in IF Len(value) < MaxInput THEN Alphabet ELSE {}}
        \cup (IF value = <<>> THEN {} ELSE {SubSeq(value, 1, Len(value) - 1)})

Instants ==
    {k * tickPeriod : k \in 0..NumEarly}
        \cup {timeoutDuration + k * tickPeriod : k \in 1..NumLate}

PushData == {[wpm |-> 42, accuracy |-> 93]}

\* ------------------------------------------------------------------- state
VARIABLES
    isAuthenticated,   \* state.isAuthenticated
    currentTest,       \* state.currentTest: NoTest or [prompt, startTime, id]
    timer,             \* state.timer: Null or the handle of an interval
    intervals,         \* handles of the active setInterval timers
    metrics,           \* state.metrics
    inputValue,        \* #typing-input .value
    inputDisabled,     \* #typing-input .disabled
    submitDisabled,    \* #submit-btn .disabled
    newTestDisabled,   \* #new-test-btn .disabled
    promptsInFlight,   \* /prompt requests awaiting their response
    submitsInFlight,   \* /submit requests awaiting their response (a bag)
    grace,             \* pending setTimeout(() => submitTest(), 1000) (a bag)
    clock,             \* current instant
    testGen,           \* number of tests created since page load
    hist,              \* history of the current test: [graceSent, ok, failed]
    last,              \* history: the step taken last
    lbData, lbIssued, lbInFlight,   \* LeaderboardComponent.data and requests
    anData, anIssued, anInFlight,   \* AnalyticsComponent.data and requests
    lbInited,          \* LeaderboardComponent: init() has run
    updateInterval,    \* LeaderboardComponent.updateInterval: Null or a handle
    lbIntervals,       \* handles of the active auto-refresh intervals
    reloadTimeouts,    \* pending 2-second reload timeouts (a bag)
    lbDestroyed,       \* history: destroy() has run
    lbLast,            \* history: the leaderboard step taken last
    animationQueue,    \* LeaderboardComponent.animationQueue
    animationTimeouts, \* pending 3-second processAnimationQueue callbacks
    shown,             \* history: the animations shown, [event, at]
    arg,               \* the arguments a function is applied to
    result,            \* the function applied last and the value it returned
    token,             \* TypeTrackPro.token
    currentUser,       \* state.currentUser
    authInFlight,      \* /login and /register requests in flight (a bag)
    form,              \* the values of the fields of the form being filled
    activityList,      \* the children of #activity-list, first child first
    feedHist,          \* history: every item added to the feed, oldest first
    authLast           \* history: the login or register step taken last

sessionVars ==
    <<isAuthenticated, currentTest, timer, intervals, metrics, inputValue,
      inputDisabled, submitDisabled, newTestDisabled, promptsInFlight,
      submitsInFlight, grace, clock, testGen, hist, last>>

loadVars == <<lbData, lbIssued, lbInFlight, anData, anIssued, anInFlight>>

refreshVars ==
    <<lbInited, updateInterval, lbIntervals, reloadTimeouts, lbDestroyed,
      lbLast, animationQueue, animationTimeouts, shown>>

calcVars == <<arg, result>>

authVars == <<token, currentUser, authInFlight, form, authLast>>

feedVars == <<activityList, feedHist>>

vars ==
    <<sessionVars, loadVars, refreshVars, calcVars, authVars, feedVars>>

\* ----------------------------------------------------------------- helpers
Min(a, b) == IF a < b THEN a ELSE b

\* Math.round(n / d) for d > 0: the floor of n / d + 1 / 2
RoundDiv(n, d) == (2 * n + d) \div (2 * d)

IsSpace(c) == c = " "

RECURSIVE TrimLeft(_)
TrimLeft(s) ==
    IF s # <<>> /\ IsSpace(Head(s)) THEN TrimLeft(Tail(s)) ELSE s

RECURSIVE TrimRight(_)
TrimRight(s) ==
    IF s # <<>> /\ IsSpace(s[Len(s)])
    THEN TrimRight(SubSeq(s, 1, Len(s) - 1)) ELSE s

\* input.trim().split(/\s+/).length: one more than the number of whitespace
\* runs of the trimmed string ("".split(..) is [""], of length 1).
WordCount(s) ==
    LET t == TrimRight(TrimLeft(s))
    IN 1 + Cardinality({i \in 2..Len(t) : IsSpace(t[i]) /\ ~IsSpace(t[i - 1])})

\* a loop that runs over the whole input and takes what lies past the
\* prompt for correct
CorrectChars_WholeInput(input, prompt) ==
    Cardinality({i \in 1..Len(input) :
                    i > Len(prompt) \/ input[i] = prompt[i]})

\* the loop counting the positions at which input and prompt agree
CorrectChars(input, prompt) ==
    Cardinality({i \in 1..Min(Len(input), Len(prompt)) : input[i] = prompt[i]})

NoHist == [graceSent |-> FALSE, ok |-> FALSE, failed |-> FALSE]
NoPayload == [none |-> TRUE]
NoLast ==
    [op |-> "init", notified |-> "none", sent |-> FALSE, trigger |-> "none",
     origin |-> 0, test |-> 0, afterGrace |-> FALSE, afterOk |-> FALSE,
     afterFail |-> FALSE, payload |-> NoPayload]
Did(op) == [NoLast EXCEPT !.op = op]
\* a step no property needs to tell from the others
Other == Did("other")
\* a handler that ends in showNotification(.., type)
DidNotify(op, type) == [NoLast EXCEPT !.op = op, !.notified = type]

CurrentId == IF currentTest = NoTest THEN 0 ELSE currentTest.id

RECURSIVE GCD(_, _)
GCD(a, b) == IF b = 0 THEN a ELSE GCD(b, a % b)

\* the number n / d (d > 0), in lowest terms
Rat(n, d) == LET g == GCD(n, d) IN <<n \div g, d \div g>>

\* 0 / 0 and x / 0 for x > 0, as IEEE division yields them
NaN == <<0, 0>>
Infinity == <<1, 0>>

\* resetMetrics: the value it assigns to state.metrics
ResetMetricsValue ==
    [wpm |-> 0, accuracy |-> 100, progress |-> Rat(0, 1), errors |-> 0,
     elapsedTime |-> Rat(0, 1)]

\* calculateLocalMetrics: the snapshot assigned to state.metrics
LocalMetrics(input, prompt, startTime, now) ==
    LET elapsedMs == now - startTime
        words == WordCount(input)
        correctChars == CorrectChars(input, prompt)
    IN [wpm |-> IF elapsedMs > 0 THEN RoundDiv(words * 60000, elapsedMs) ELSE 0,
        accuracy |-> IF Len(prompt) > 0
                     THEN RoundDiv(100 * correctChars, Len(prompt)) ELSE 100,
        progress |-> IF Len(prompt) = 0
                     THEN (IF Len(input) = 0 THEN NaN ELSE Rat(100, 1))
                     ELSE IF Len(input) >= Len(prompt) THEN Rat(100, 1)
                     ELSE Rat(100 * Len(input), Len(prompt)),
        errors |-> Len(input) - correctChars,
        elapsedTime |-> Rat(elapsedMs, 1000)]

\* new Date(null) is the epoch, so a test that was never started has been
\* running since 1970: its time_taken is the current epoch time, and its
\* wpm, a few words over that many minutes, rounds to 0
SinceEpoch == <<-1, 1>>

\* submitTest: submissionData, the body of the /submit request.  wpm and
\* accuracy are kept to two decimals by Math.round(x * 100) / 100; the
\* difficulty is handed through from the prompt response.
SubmissionData(input, prompt, startTime, now) ==
    LET elapsedMs == now - startTime
        words == WordCount(input)
        correctChars == CorrectChars(input, prompt)
    IN [wpm |-> IF startTime = Null THEN Rat(0, 100)
                ELSE IF elapsedMs = 0 THEN Infinity
                ELSE Rat(RoundDiv(words * 6000000, elapsedMs), 100),
        accuracy |-> IF Len(prompt) = 0 THEN NaN
                     ELSE Rat(RoundDiv(10000 * correctChars, Len(prompt)), 100),
        errors |-> Len(input) - correctChars,
        characters_typed |-> Len(input),
        time_taken |-> IF startTime = Null THEN SinceEpoch
                       ELSE Rat(elapsedMs, 1000)]

\* ------------------------------------------------------------------- Init
SessionInit ==
    /\ isAuthenticated = FALSE
    /\ currentTest = NoTest
    /\ timer = Null
    /\ intervals = {}
    /\ metrics = [wpm |-> 0, accuracy |-> 100, progress |-> Rat(0, 1),
                  errors |-> 0, elapsedTime |-> Rat(0, 1)]
    /\ inputValue = <<>>
    /\ inputDisabled = TRUE
    /\ submitDisabled = TRUE
    /\ newTestDisabled = FALSE
    /\ promptsInFlight = 0
    /\ submitsInFlight = EmptyBag
    /\ grace = EmptyBag
    /\ testGen = 0
    /\ hist = NoHist
    /\ last = NoLast

LoadInit ==
    /\ lbData = 0 /\ lbIssued = 0 /\ lbInFlight = {}
    /\ anData = 0 /\ anIssued = 0 /\ anInFlight = {}

NoLbLast == [op |-> "none", early |-> FALSE]

RefreshInit ==
    /\ lbInited = FALSE
    /\ updateInterval = Null
    /\ lbIntervals = {}
    /\ reloadTimeouts = EmptyBag
    /\ lbDestroyed = FALSE
    /\ lbLast = NoLbLast
    /\ animationQueue = <<>>
    /\ animationTimeouts = EmptyBag
    /\ shown = <<>>

NoArg == [none |-> TRUE]
NoResult == [fn |-> "none"]

CalcInit == arg = NoArg /\ result = NoResult

\* null, for token and currentUser
NoCredential == [none |-> TRUE]

\* constructor: this.token = localStorage.getItem('typetrack_token'), with
\* nothing stored
AuthInit ==
    /\ token = NoCredential
    /\ currentUser = NoCredential
    /\ authInFlight = EmptyBag
    /\ form = [kind |-> "login", username |-> <<>>, password |-> <<>>]
    /\ authLast = [op |-> "none", sent |-> FALSE, message |-> "none"]

\* the #activity-list element starts without children
FeedInit ==
    /\ activityList = <<>>
    /\ feedHist = <<>>

Init ==
    /\ SessionInit /\ clock = 0 /\ LoadInit /\ RefreshInit /\ CalcInit
    /\ AuthInit /\ FeedInit

\* ------------------------------------------- TypeTrackPro: timer helpers
\* clearInterval(this.state.timer) when state.timer is set
ClearTimer == intervals \ {timer}

\* the auto-timeout firing already at the threshold
TimedOut_AtThreshold(elapsed) == elapsed >= timeoutDuration

\* the condition of the auto-timeout in the interval callback
TimedOut(elapsed) == elapsed > timeoutDuration

\* submitTest(): the guard, and the request it issues
SubmitTest(op, trigger, origin) ==
    IF currentTest # NoTest /\ isAuthenticated
    THEN /\ submitsInFlight' = submitsInFlight
                (+) SetToBag({[test |-> currentTest.id]})
         /\ hist' = [hist EXCEPT !.graceSent = @ \/ trigger = "grace"]
         /\ last' = [op |-> op, notified |-> "none", sent |-> TRUE,
                     trigger |-> trigger,
                     origin |-> origin, test |-> currentTest.id,
                     afterGrace |-> hist.graceSent,
                     afterOk |-> hist.ok, afterFail |-> hist.failed,
                     payload |-> SubmissionData(inputValue, currentTest.prompt,
                                                currentTest.startTime, clock)]
    ELSE /\ UNCHANGED <<submitsInFlight, hist>>
         /\ last' = Did(op)

\* finishTest()
FinishTest ==
    /\ intervals' = IF timer # Null THEN ClearTimer ELSE intervals
    /\ timer' = Null
    /\ inputDisabled' = TRUE
    /\ submitDisabled' = TRUE
    /\ newTestDisabled' = FALSE

\* ------------------------------------------------ TypeTrackPro: actions
\* login(): the response.ok branch.  The login form is on the auth section,
\* which is shown while nobody is authenticated.
LoginOk ==
    /\ ~isAuthenticated
    /\ isAuthenticated' = TRUE
    /\ token' = [jwt |-> <<"a", "b", "c">>]
    /\ currentUser' = [username |-> <<"a", "b", "c">>]
    /\ last' = DidNotify("login", "success")
    /\ UNCHANGED <<currentTest, timer, intervals, metrics, inputValue,
                   inputDisabled, submitDisabled, newTestDisabled,
                   promptsInFlight, submitsInFlight, grace, clock, testGen,
                   hist>>
    /\ UNCHANGED <<authInFlight, form, authLast>>
    /\ UNCHANGED <<loadVars, refreshVars, calcVars, feedVars>>

\* logout(): clears the credentials and the interval, then location.reload()
\* builds a new TypeTrackPro without a token; pending callbacks and
\* responses of the old page are gone with it.
Logout ==
    /\ isAuthenticated
    /\ isAuthenticated' = FALSE
    /\ currentTest' = NoTest
    /\ timer' = Null
    /\ intervals' = {}
    /\ metrics' = [wpm |-> 0, accuracy |-> 100, progress |-> Rat(0, 1),
                   errors |-> 0, elapsedTime |-> Rat(0, 1)]
    /\ inputValue' = <<>>
    /\ inputDisabled' = TRUE
    /\ submitDisabled' = TRUE
    /\ newTestDisabled' = FALSE
    /\ promptsInFlight' = 0
    /\ submitsInFlight' = EmptyBag
    /\ grace' = EmptyBag
    /\ testGen' = 0
    /\ hist' = NoHist
    /\ last' = Other
    /\ token' = NoCredential
    /\ currentUser' = NoCredential
    /\ authInFlight' = EmptyBag
    /\ form' = [kind |-> "login", username |-> <<>>, password |-> <<>>]
    /\ authLast' = [op |-> "none", sent |-> FALSE, message |-> "none"]
    /\ UNCHANGED clock
    /\ UNCHANGED <<loadVars, refreshVars, calcVars, feedVars>>

\* startNewTest() up to its first await: the /prompt request is issued.
\* Reached by Ctrl+Enter while there is no current test, or by the
\* new-test button of the main section while it is enabled.
StartNewTest ==
    /\ \/ currentTest = NoTest
       \/ isAuthenticated /\ ~newTestDisabled
    /\ promptsInFlight < MaxPrompts
    /\ testGen + promptsInFlight < MaxTests
    /\ promptsInFlight' = promptsInFlight + 1
    /\ last' = Other
    /\ UNCHANGED <<isAuthenticated, currentTest, timer, intervals, metrics,
                   inputValue, inputDisabled, submitDisabled, newTestDisabled,
                   submitsInFlight, grace, clock, testGen, hist>>
    /\ UNCHANGED <<loadVars, refreshVars, calcVars, authVars, feedVars>>

\* setupTest without its resetMetrics() call
SetupTest_NoReset ==
    /\ inputValue' = <<>>
    /\ inputDisabled' = FALSE
    /\ submitDisabled' = FALSE
    /\ newTestDisabled' = TRUE
    /\ metrics' = metrics

\* setupTest(prompt)
SetupTest ==
    /\ inputValue' = <<>>
    /\ inputDisabled' = FALSE
    /\ submitDisabled' = FALSE
    /\ newTestDisabled' = TRUE
    /\ metrics' = ResetMetricsValue

\* a catch branch that also resets the metrics
StartNewTestCatch_Resets ==
    /\ last' = DidNotify("promptFail", "error")
    /\ metrics' = ResetMetricsValue
    /\ UNCHANGED <<currentTest, inputValue, inputDisabled,
                   submitDisabled, newTestDisabled, testGen, hist>>

\* startNewTest(): the catch branch (non-ok response or thrown error)
StartNewTestCatch ==
    /\ last' = DidNotify("promptFail", "error")
    /\ UNCHANGED <<currentTest, metrics, inputValue, inputDisabled,
                   submitDisabled, newTestDisabled, testGen, hist>>

\* startNewTest() after the response arrived
PromptResponse(ok, prompt) ==
    /\ promptsInFlight > 0
    /\ promptsInFlight' = promptsInFlight - 1
    /\ IF ok
       THEN /\ currentTest' = [prompt |-> prompt, startTime |-> Null,
                               id |-> testGen + 1]
            /\ testGen' = testGen + 1
            /\ SetupTest
            /\ hist' = NoHist
            /\ last' = DidNotify("promptOk", "info")
       ELSE StartNewTestCatch
    /\ UNCHANGED <<isAuthenticated, timer, intervals, submitsInFlight, grace,
                   clock>>
    /\ UNCHANGED <<loadVars, refreshVars, calcVars, authVars, feedVars>>

\* a startTimer that does not clear the previous interval
StartTimer_NoClear(handle) == intervals \cup {handle}

\* startTimer(): the intervals left running and the new one
StartTimer(handle) ==
    (IF timer # Null THEN ClearTimer ELSE intervals)
        \cup {handle}

\* handleTyping(input): an input event of the typing field, which is in the
\* main section and fires only while the field is enabled.
HandleTyping(input) ==
    /\ isAuthenticated
    /\ ~inputDisabled
    /\ input # inputValue
    /\ inputValue' = input
    /\ last' = Other
    /\ IF currentTest = NoTest
       THEN UNCHANGED <<currentTest, timer, intervals, metrics, grace>>
       ELSE LET starting == currentTest.startTime = Null
                startTime == IF starting THEN clock ELSE currentTest.startTime
                full == Len(input) >= Len(currentTest.prompt)
            IN /\ full => BagCardinality(grace) < MaxGrace
               /\ currentTest' = [currentTest EXCEPT !.startTime = startTime]
               /\ timer' = IF starting THEN currentTest.id ELSE timer
               /\ intervals' = IF starting THEN StartTimer(currentTest.id)
                               ELSE intervals
               /\ metrics' = LocalMetrics(input, currentTest.prompt,
                                          startTime, clock)
               /\ grace' = IF full
                           THEN grace (+) SetToBag({[origin |-> currentTest.id,
                                                     due |-> clock + graceDelay]})
                           ELSE grace
    /\ UNCHANGED <<isAuthenticated, inputDisabled, submitDisabled,
                   newTestDisabled, promptsInFlight, submitsInFlight, clock,
                   testGen, hist>>
    /\ UNCHANGED <<loadVars, refreshVars, calcVars, authVars, feedVars>>

\* the callback of setTimeout(() => this.submitTest(), 1000)
GraceFires(g) ==
    /\ BagIn(g, grace)
    /\ clock >= g.due
    /\ BagCardinality(submitsInFlight) < MaxSubmits
    /\ grace' = grace (-) SetToBag({g})
    /\ SubmitTest("grace", "grace", g.origin)
    /\ UNCHANGED <<isAuthenticated, currentTest, timer, intervals, metrics,
                   inputValue, inputDisabled, submitDisabled, newTestDisabled,
                   promptsInFlight, clock, testGen>>
    /\ UNCHANGED <<loadVars, refreshVars, calcVars, authVars, feedVars>>

\* submitTest() from the submit button of the main section
ManualSubmit ==
    /\ isAuthenticated
    /\ ~submitDisabled
    /\ BagCardinality(submitsInFlight) < MaxSubmits
    /\ SubmitTest("manual", "manual", CurrentId)
    /\ UNCHANGED <<isAuthenticated, currentTest, timer, intervals, metrics,
                   inputValue, inputDisabled, submitDisabled, newTestDisabled,
                   promptsInFlight, grace, clock, testGen>>
    /\ UNCHANGED <<loadVars, refreshVars, calcVars, authVars, feedVars>>

\* the setInterval callback of startTimer(); the scheduler runs it about
\* once a second, the model at any instant while the interval is active
Tick(handle) ==
    /\ handle \in intervals
    /\ BagCardinality(submitsInFlight) < MaxSubmits
    /\ IF /\ currentTest # NoTest
          /\ currentTest.startTime # Null
          /\ TimedOut(clock - currentTest.startTime)
       THEN SubmitTest("tick", "timeout", handle)
       ELSE /\ last' = Did("tick")
            /\ UNCHANGED <<submitsInFlight, hist>>
    /\ UNCHANGED <<isAuthenticated, currentTest, timer, intervals, metrics,
                   inputValue, inputDisabled, submitDisabled, newTestDisabled,
                   promptsInFlight, grace, clock, testGen>>
    /\ UNCHANGED <<loadVars, refreshVars, calcVars, authVars, feedVars>>

\* submitTest() after the response arrived.  The loadAnalytics() call that
\* follows finishTest() only redraws the analytics panel.
SubmitResponse(r, ok) ==
    /\ BagIn(r, submitsInFlight)
    /\ submitsInFlight' = submitsInFlight (-) SetToBag({r})
    /\ IF ok
       THEN /\ FinishTest
            /\ hist' = IF r.test = CurrentId
                       THEN [hist EXCEPT !.ok = TRUE] ELSE hist
            /\ last' = DidNotify("submitOk", "success")
       ELSE /\ hist' = IF r.test = CurrentId
                       THEN [hist EXCEPT !.failed = TRUE] ELSE hist
            /\ last' = [DidNotify("submitFail", "error") EXCEPT !.test = r.test]
            /\ UNCHANGED <<timer, intervals, inputDisabled, submitDisabled,
                           newTestDisabled>>
    /\ UNCHANGED <<isAuthenticated, currentTest, metrics, inputValue,
                   promptsInFlight, grace, clock, testGen>>
    /\ UNCHANGED <<loadVars, refreshVars, calcVars, authVars, feedVars>>

\* resetTest(): Ctrl+R, the reset button, a confirmed configuration change
ResetTest ==
    /\ intervals' = IF timer # Null THEN ClearTimer ELSE intervals
    /\ timer' = Null
    /\ currentTest' = NoTest
    /\ inputValue' = <<>>
    /\ inputDisabled' = TRUE
    /\ submitDisabled' = TRUE
    /\ newTestDisabled' = FALSE
    /\ metrics' = ResetMetricsValue
    /\ hist' = NoHist
    /\ last' = Other
    /\ UNCHANGED <<isAuthenticated, promptsInFlight, submitsInFlight, grace,
                   clock, testGen>>
    /\ UNCHANGED <<loadVars, refreshVars, calcVars, authVars, feedVars>>

\* updateMetrics(data): the handler of the socket's metrics_update event
UpdateMetrics(data) ==
    /\ metrics' = data @@ metrics
    /\ last' = Did("updateMetrics")
    /\ UNCHANGED <<isAuthenticated, currentTest, timer, intervals, inputValue,
                   inputDisabled, submitDisabled, newTestDisabled,
                   promptsInFlight, submitsInFlight, grace, clock,
                   testGen, hist>>
    /\ UNCHANGED <<loadVars, refreshVars, calcVars, authVars, feedVars>>

\* time passes
Advance(t) ==
    /\ t > clock
    /\ clock' = t
    /\ last' = Other
    /\ UNCHANGED <<isAuthenticated, currentTest, timer, intervals, metrics,
                   inputValue, inputDisabled, submitDisabled, newTestDisabled,
                   promptsInFlight, submitsInFlight, grace, testGen, hist>>
    /\ UNCHANGED <<loadVars, refreshVars, calcVars, authVars, feedVars>>

Next ==
    \/ LoginOk
    \/ Logout
    \/ StartNewTest
    \/ \E ok \in BOOLEAN, prompt \in Prompts : PromptResponse(ok, prompt)
    \/ \E input \in InputValues(inputValue) : HandleTyping(input)
    \/ \E g \in BagToSet(grace) : GraceFires(g)
    \/ ManualSubmit
    \/ \E handle \in intervals : Tick(handle)
    \/ \E r \in BagToSet(submitsInFlight), ok \in BOOLEAN : SubmitResponse(r, ok)
    \/ ResetTest
    \/ \E data \in PushData : UpdateMetrics(data)
    \/ \E t \in Instants : Advance(t)

Spec == Init /\ [][Next]_vars

TypeOK ==
    /\ isAuthenticated \in BOOLEAN
    /\ timer \in {Null} \cup (1..MaxTests)
    /\ clock \in Instants

\* ------------------------------- LeaderboardComponent, AnalyticsComponent
\* The response to a request is named by the request's sequence number;
\* data = 0 is the value the constructor assigns.

\* loadLeaderboardData() up to its first await
LoadLeaderboardData ==
    /\ lbIssued < MaxRequests
    /\ lbIssued' = lbIssued + 1
    /\ lbInFlight' = lbInFlight \cup {lbIssued + 1}
    /\ UNCHANGED <<lbData, anData, anIssued, anInFlight>>
    /\ UNCHANGED <<sessionVars, refreshVars, calcVars, authVars, feedVars>>

\* loadLeaderboardData() after the response arrived
LeaderboardResponse(r, ok) ==
    /\ r \in lbInFlight
    /\ lbInFlight' = lbInFlight \ {r}
    /\ lbData' = IF ok THEN r ELSE lbData
    /\ UNCHANGED <<lbIssued, anData, anIssued, anInFlight>>
    /\ UNCHANGED <<sessionVars, refreshVars, calcVars, authVars, feedVars>>

\* loadAnalyticsData() up to its first await
LoadAnalyticsData ==
    /\ anIssued < MaxRequests
    /\ anIssued' = anIssued + 1
    /\ anInFlight' = anInFlight \cup {anIssued + 1}
    /\ UNCHANGED <<anData, lbData, lbIssued, lbInFlight>>
    /\ UNCHANGED <<sessionVars, refreshVars, calcVars, authVars, feedVars>>

\* loadAnalyticsData() after the response arrived
AnalyticsResponse(r, ok) ==
    /\ r \in anInFlight
    /\ anInFlight' = anInFlight \ {r}
    /\ anData' = IF ok THEN r ELSE anData
    /\ UNCHANGED <<anIssued, lbData, lbIssued, lbInFlight>>
    /\ UNCHANGED <<sessionVars, refreshVars, calcVars, authVars, feedVars>>

NextLoad ==
    \/ LoadLeaderboardData
    \/ \E r \in lbInFlight, ok \in BOOLEAN : LeaderboardResponse(r, ok)
    \/ LoadAnalyticsData
    \/ \E r \in anInFlight, ok \in BOOLEAN : AnalyticsResponse(r, ok)

SpecLoad == Init /\ [][NextLoad]_vars

\* ------------------------------------------ LeaderboardComponent: timers
\* A timer callback that calls loadLeaderboardData(): the request it issues
Reload(op, early) ==
    /\ lbIssued < MaxRequests
    /\ lbIssued' = lbIssued + 1
    /\ lbInFlight' = lbInFlight \cup {lbIssued + 1}
    /\ lbLast' = [op |-> op, early |-> early]

\* stopAutoRefresh(): the intervals left running
StopAutoRefresh ==
    IF updateInterval # Null THEN lbIntervals \ {updateInterval}
    ELSE lbIntervals

\* init(): setupEventListeners(), loadLeaderboardData(), startAutoRefresh().
\* The component is initialised once; the handle of its interval is 1.
LeaderboardInit ==
    /\ ~lbInited
    /\ lbInited' = TRUE
    /\ Reload("init", FALSE)
    /\ updateInterval' = 1
    /\ lbIntervals' = lbIntervals \cup {1}
    /\ UNCHANGED <<lbData, reloadTimeouts, lbDestroyed>>
    /\ UNCHANGED <<animationQueue, animationTimeouts, shown>>
    /\ UNCHANGED <<anData, anIssued, anInFlight>>
    /\ UNCHANGED <<sessionVars, calcVars, authVars, feedVars>>

\* the callback of the setInterval of startAutoRefresh()
AutoRefreshTick(handle) ==
    /\ handle \in lbIntervals
    /\ Reload("intervalLoad", FALSE)
    /\ UNCHANGED <<lbData, lbInited, updateInterval, lbIntervals,
                   reloadTimeouts, lbDestroyed>>
    /\ UNCHANGED <<animationQueue, animationTimeouts, shown>>
    /\ UNCHANGED <<anData, anIssued, anInFlight>>
    /\ UNCHANGED <<sessionVars, calcVars, authVars, feedVars>>

\* processAnimationQueue() for the queue it finds: the animation shifted
\* off is shown at once and a 3-second callback is left behind
ProcessAnimationQueue(queue) ==
    IF queue = <<>>
    THEN /\ animationQueue' = queue
         /\ UNCHANGED <<shown, animationTimeouts>>
    ELSE /\ animationQueue' = Tail(queue)
         /\ shown' = Append(shown, [event |-> Head(queue), at |-> clock])
         /\ animationTimeouts' =
                animationTimeouts (+) SetToBag({[due |-> clock + 3000]})

\* handleRealtimeUpdate(data): the socket listener registered by init().
\* Events are numbered as they arrive.  The record pushed on animationQueue
\* is processed within the same call; the 2-second timeout stays.
HandleRealtimeUpdate ==
    /\ lbInited
    /\ BagCardinality(reloadTimeouts) < MaxReloads
    /\ Len(shown) + Len(animationQueue) < MaxEvents
    /\ ProcessAnimationQueue(
           Append(animationQueue, Len(shown) + Len(animationQueue) + 1))
    /\ reloadTimeouts' = reloadTimeouts (+) SetToBag({[early |-> ~lbDestroyed]})
    /\ lbLast' = [op |-> "realtimeUpdate", early |-> FALSE]
    /\ UNCHANGED <<lbInited, updateInterval, lbIntervals, lbDestroyed>>
    /\ UNCHANGED loadVars
    /\ UNCHANGED <<sessionVars, calcVars, authVars, feedVars>>

\* the callback of setTimeout(() => this.processAnimationQueue(), 3000)
AnimationTimeoutFires(t) ==
    /\ BagIn(t, animationTimeouts)
    /\ clock >= t.due
    /\ IF animationQueue = <<>>
       THEN /\ animationTimeouts' = animationTimeouts (-) SetToBag({t})
            /\ UNCHANGED <<animationQueue, shown>>
       ELSE /\ animationQueue' = Tail(animationQueue)
            /\ shown' = Append(shown, [event |-> Head(animationQueue),
                                        at |-> clock])
            /\ animationTimeouts' =
                   (animationTimeouts (-) SetToBag({t}))
                       (+) SetToBag({[due |-> clock + 3000]})
    /\ lbLast' = [op |-> "animationTimeout", early |-> FALSE]
    /\ UNCHANGED <<lbInited, updateInterval, lbIntervals, reloadTimeouts,
                   lbDestroyed>>
    /\ UNCHANGED loadVars
    /\ UNCHANGED <<sessionVars, calcVars, authVars, feedVars>>

\* the callback of setTimeout(() => this.loadLeaderboardData(), 2000)
ReloadTimeoutFires(t) ==
    /\ BagIn(t, reloadTimeouts)
    /\ reloadTimeouts' = reloadTimeouts (-) SetToBag({t})
    /\ Reload("timeoutLoad", t.early)
    /\ UNCHANGED <<lbData, lbInited, updateInterval, lbIntervals, lbDestroyed>>
    /\ UNCHANGED <<animationQueue, animationTimeouts, shown>>
    /\ UNCHANGED <<anData, anIssued, anInFlight>>
    /\ UNCHANGED <<sessionVars, calcVars, authVars, feedVars>>

\* destroy(): stopAutoRefresh(), animationQueue = []
LeaderboardDestroy ==
    /\ lbInited
    /\ lbIntervals' = StopAutoRefresh
    /\ updateInterval' = Null
    /\ lbDestroyed' = TRUE
    /\ lbLast' = [op |-> "destroy", early |-> FALSE]
    /\ animationQueue' = <<>>
    /\ UNCHANGED <<lbInited, reloadTimeouts, animationTimeouts, shown>>
    /\ UNCHANGED loadVars
    /\ UNCHANGED <<sessionVars, calcVars, authVars, feedVars>>

NextRefresh ==
    \/ LeaderboardInit
    \/ \E handle \in lbIntervals : AutoRefreshTick(handle)
    \/ HandleRealtimeUpdate
    \/ \E t \in BagToSet(reloadTimeouts) : ReloadTimeoutFires(t)
    \/ LeaderboardDestroy
    \/ \E r \in lbInFlight, ok \in BOOLEAN : LeaderboardResponse(r, ok)

SpecRefresh == Init /\ [][NextRefresh]_vars

\* ------------------------------------------- TypeTrackPro: activity feed
\* "Keep only recent 10 items"
FeedLimit == 10

\* the users whose results are announced
FeedUsers == {"ann", "bob"}

\* the feed with every new item placed last
AddActivityFeedItem_Append(list, item) ==
    LET inserted == Append(list, item)
    IN SubSeq(inserted, 1, Min(Len(inserted), FeedLimit))

\* addActivityFeedItem(item): insertBefore(firstChild), then lastChild is
\* removed while there are more than 10 children
AddActivityFeedItem(list, item) ==
    LET inserted == <<item>> \o list
    IN SubSeq(inserted, 1, Min(Len(inserted), FeedLimit))

\* handleLeaderboardUpdate(data) of TypeTrackPro.  The socket listener that
\* calls it goes on to loadLeaderboard(), which rewrites #leaderboard-list
\* and leaves the feed alone.
HandleLeaderboardUpdate(user) ==
    /\ Len(feedHist) < MaxItems
    /\ LET item == [text |-> user, time |-> clock]
       IN /\ activityList' = AddActivityFeedItem(activityList, item)
          /\ feedHist' = Append(feedHist, item)
    /\ UNCHANGED <<sessionVars, loadVars, refreshVars, calcVars, authVars>>

NextFeed == \E user \in FeedUsers : HandleLeaderboardUpdate(user)

SpecFeed == Init /\ [][NextFeed]_vars

\* the animations of the leaderboard, with time passing
NextAnimation ==
    \/ LeaderboardInit
    \/ HandleRealtimeUpdate
    \/ \E t \in BagToSet(animationTimeouts) : AnimationTimeoutFires(t)
    \/ \E t \in BagToSet(reloadTimeouts) : ReloadTimeoutFires(t)
    \/ LeaderboardDestroy
    \/ \E t \in Instants : Advance(t)

SpecAnimation == Init /\ [][NextAnimation]_vars

\* ------------------------------------- TypeTrackPro: the metrics formulas
\* calculateLocalMetrics and the computation of submitTest, applied to every
\* typed string and prompt up to MaxLen and to the elapsed times below.
Chars == Alphabet \cup {" "}

StringsUpTo(n) == UNION {[1..k -> Chars] : k \in 0..n}

\* milliseconds between startTime and the call: none, a second, a minute
ElapsedValues == {0, 1000, 60000}

InitMetrics ==
    /\ arg \in [input : StringsUpTo(MaxLen), prompt : StringsUpTo(MaxLen),
                elapsedMs : ElapsedValues]
    /\ result = NoResult
    /\ SessionInit /\ clock = 0 /\ LoadInit /\ RefreshInit /\ AuthInit
    /\ FeedInit

\* calculateLocalMetrics(input) with startTime set, as handleTyping calls it
CalculateLocalMetrics ==
    /\ result' = [fn |-> "calculateLocalMetrics",
                  value |-> LocalMetrics(arg.input, arg.prompt, 0,
                                         arg.elapsedMs)]
    /\ UNCHANGED <<arg, sessionVars, loadVars, refreshVars, authVars, feedVars>>

\* submitTest(): the final calculations and submissionData
ComputeSubmissionData ==
    /\ result' = [fn |-> "submitTest",
                  value |-> SubmissionData(arg.input, arg.prompt, 0,
                                           arg.elapsedMs)]
    /\ UNCHANGED <<arg, sessionVars, loadVars, refreshVars, authVars, feedVars>>

NextMetrics == CalculateLocalMetrics \/ ComputeSubmissionData

SpecMetrics == InitMetrics /\ [][NextMetrics]_vars

\* ------------------------------------------ TypeTrackPro: login, register
\* the elements of pattern from the k-th on match s from position i on
RECURSIVE MatchesAt(_, _, _, _)
MatchesAt(pattern, k, s, i) ==
    IF k > Len(pattern) THEN TRUE
    ELSE IF pattern[k] = "\\S+"
         THEN \E n \in 1..(Len(s) - i + 1) :
                  /\ \A j \in i..(i + n - 1) : ~IsSpace(s[j])
                  /\ MatchesAt(pattern, k + 1, s, i + n)
         ELSE i <= Len(s) /\ s[i] = pattern[k]
                /\ MatchesAt(pattern, k + 1, s, i + 1)

\* /\S+@\S+\.\S+/.test(email): a match may start anywhere in email
EmailTest(email) ==
    \E i \in 1..Len(email) :
        MatchesAt(<<"\\S+", "@", "\\S+", ".", "\\S+">>, 1, email, i)

\* a validation that accepts every password
ValidateRegistrationData_AnyPassword(username, email, password) ==
    IF username = <<>> \/ Len(username) < 3
    THEN "Username must be at least 3 characters"
    ELSE IF email = <<>> \/ ~EmailTest(email)
         THEN "Please enter a valid email address"
         ELSE ""

\* validateRegistrationData(username, email, password): the message it
\* shows, "" where it returns true
ValidateRegistrationData(username, email, password) ==
    IF username = <<>> \/ Len(username) < 3
    THEN "Username must be at least 3 characters"
    ELSE IF email = <<>> \/ ~EmailTest(email)
         THEN "Please enter a valid email address"
         ELSE IF password = <<>> \/ Len(password) < 6
              THEN "Password must be at least 6 characters"
              ELSE ""

\* values of the fields of the login form and of the register form
Forms ==
    LET usernames == {<<>>, <<"a", "b">>, <<"a", "b", "c">>,
                      <<" ", "a", "b", " ">>}
        passwords == {[i \in 1..n |-> "x"] : n \in {0, 5, 6}}
        emails == UNION {[1..k -> {"a", "@", ".", " "}] : k \in 0..MaxEmail}
    IN [kind : {"login"}, username : usernames, password : passwords]
         \cup [kind : {"register"}, username : usernames, email : emails,
               password : passwords]

\* the page with nobody logged in and one of the two forms filled in
InitAuth ==
    /\ form \in Forms
    /\ token = NoCredential
    /\ currentUser = NoCredential
    /\ authInFlight = EmptyBag
    /\ authLast = [op |-> "none", sent |-> FALSE, message |-> "none"]
    /\ SessionInit /\ clock = 0 /\ LoadInit /\ RefreshInit /\ CalcInit
    /\ FeedInit

\* login() up to its first await
Login ==
    /\ ~isAuthenticated
    /\ form.kind = "login"
    /\ LET username == TrimRight(TrimLeft(form.username))
           password == form.password
       IN IF username = <<>> \/ password = <<>>
          THEN /\ authLast' = [op |-> "login", sent |-> FALSE,
                     message |-> "Please enter username and password"]
               /\ UNCHANGED authInFlight
          ELSE /\ BagCardinality(authInFlight) < MaxAuth
               /\ authInFlight' = authInFlight (+)
                      SetToBag({[endpoint |-> "/login",
                                 username |-> username,
                                 password |-> password]})
               /\ authLast' = [op |-> "login", sent |-> TRUE,
                     message |-> "none"]
    /\ UNCHANGED <<token, currentUser, form>>
    /\ UNCHANGED <<sessionVars, loadVars, refreshVars, calcVars, feedVars>>

\* login() from the response on; a failed fetch is handled as ~ok is
LoginResponse(r, ok) ==
    /\ r \in BagToSet(authInFlight)
    /\ r.endpoint = "/login"
    /\ authInFlight' = authInFlight (-) SetToBag({r})
    /\ IF ok
       THEN /\ token' = [jwt |-> r.username]
            /\ currentUser' = [username |-> r.username]
            /\ isAuthenticated' = TRUE
            /\ last' = DidNotify("login", "success")
            /\ authLast' = [op |-> "loginResponse", sent |-> FALSE,
                     message |-> "none"]
       ELSE /\ authLast' = [op |-> "loginResponse", sent |-> FALSE,
                     message |-> "Login failed"]
            /\ UNCHANGED <<token, currentUser, isAuthenticated, last>>
    /\ UNCHANGED <<currentTest, timer, intervals, metrics, inputValue,
                   inputDisabled, submitDisabled, newTestDisabled,
                   promptsInFlight, submitsInFlight, grace, clock, testGen,
                   hist>>
    /\ UNCHANGED <<form, loadVars, refreshVars, calcVars, feedVars>>

\* register() up to its first await
Register ==
    /\ ~isAuthenticated
    /\ form.kind = "register"
    /\ LET username == TrimRight(TrimLeft(form.username))
           email == TrimRight(TrimLeft(form.email))
           password == form.password
           message == ValidateRegistrationData(username, email, password)
       IN IF message # ""
          THEN /\ authLast' = [op |-> "register", sent |-> FALSE,
                     message |-> message]
               /\ UNCHANGED authInFlight
          ELSE /\ BagCardinality(authInFlight) < MaxAuth
               /\ authInFlight' = authInFlight (+)
                      SetToBag({[endpoint |-> "/register",
                                 username |-> username, email |-> email,
                                 password |-> password]})
               /\ authLast' = [op |-> "register", sent |-> TRUE,
                     message |-> "none"]
    /\ UNCHANGED <<token, currentUser, form>>
    /\ UNCHANGED <<sessionVars, loadVars, refreshVars, calcVars, feedVars>>

\* register() from the response on
RegisterResponse(r, ok) ==
    /\ r \in BagToSet(authInFlight)
    /\ r.endpoint = "/register"
    /\ authInFlight' = authInFlight (-) SetToBag({r})
    /\ IF ok
       THEN /\ authLast' = [op |-> "registerResponse", sent |-> FALSE,
                     message |-> "Registration successful! Please login."]
            /\ form' = IF form.kind = "register"
                       THEN [kind |-> "register", username |-> <<>>,
                             email |-> <<>>, password |-> <<>>]
                       ELSE form
       ELSE /\ authLast' = [op |-> "registerResponse", sent |-> FALSE,
                     message |-> "Registration failed"]
            /\ UNCHANGED form
    /\ UNCHANGED <<token, currentUser>>
    /\ UNCHANGED <<sessionVars, loadVars, refreshVars, calcVars, feedVars>>

NextAuth ==
    \/ Login
    \/ Register
    \/ \E r \in BagToSet(authInFlight), ok \in BOOLEAN : LoginResponse(r, ok)
    \/ \E r \in BagToSet(authInFlight), ok \in BOOLEAN :
          RegisterResponse(r, ok)
    \/ Logout

SpecAuth == InitAuth /\ [][NextAuth]_vars

\* ------------------------------------ AnalyticsComponent: the statistics
\* calculateLinearRegression and createHistogramBins, applied to every
\* series of integers 0..MaxVal of length up to MaxN.  Numbers are exact
\* fractions <<n, d>> in lowest terms with d > 0; d = 0 marks NaN.
Abs(n) == IF n < 0 THEN -n ELSE n

\* n / d as the division yields it, for d >= 0
Frac(n, d) ==
    IF d = 0 THEN (IF n = 0 THEN NaN ELSE Infinity)
    ELSE LET g == GCD(Abs(n), d) IN <<n \div g, d \div g>>

RECURSIVE SumSeq(_)
SumSeq(s) == IF s = <<>> THEN 0 ELSE Head(s) + SumSeq(Tail(s))

\* x = Array.from({length: n}, (_, i) => i), at the 1-based position i
XAt(i) == i - 1

SumX(values) == SumSeq([i \in 1..Len(values) |-> XAt(i)])
SumY(values) == SumSeq(values)
SumXY(values) == SumSeq([i \in 1..Len(values) |-> XAt(i) * values[i]])
SumXX(values) == SumSeq([i \in 1..Len(values) |-> XAt(i) * XAt(i)])

\* a numerator that leaves out the factor n
SlopeNumerator_WithoutN(values) ==
    SumXY(values) - SumX(values) * SumY(values)

\* n * sumXY - sumX * sumY
SlopeNumerator(values) ==
    Len(values) * SumXY(values) - SumX(values) * SumY(values)

\* n * sumXX - sumX * sumX
SlopeDenominator(values) ==
    Len(values) * SumXX(values) - SumX(values) * SumX(values)

RegressionSlope(values) ==
    Frac(SlopeNumerator(values), SlopeDenominator(values))

\* (sumY - slope * sumX) / n
RegressionIntercept(values) ==
    IF SlopeDenominator(values) = 0 THEN NaN
    ELSE Frac(SumY(values) * SlopeDenominator(values)
                - SlopeNumerator(values) * SumX(values),
              SlopeDenominator(values) * Len(values))

\* calculateLinearRegression(values): x.map(val => slope * val + intercept)
LinearRegression(values) ==
    [i \in 1..Len(values) |->
        IF SlopeDenominator(values) = 0 THEN NaN
        ELSE Frac(SlopeNumerator(values) * XAt(i) * Len(values)
                    + SumY(values) * SlopeDenominator(values)
                    - SlopeNumerator(values) * SumX(values),
                  SlopeDenominator(values) * Len(values))]

RECURSIVE MinOf(_)
MinOf(s) == IF Len(s) = 1 THEN s[1] ELSE Min(Head(s), MinOf(Tail(s)))

Max(a, b) == IF a > b THEN a ELSE b

RECURSIVE MaxOf(_)
MaxOf(s) == IF Len(s) = 1 THEN s[1] ELSE Max(Head(s), MaxOf(Tail(s)))

\* Math.round(min + i * binWidth) with binWidth = (max - min) / binCount
BinEdge(values, binCount, i) ==
    RoundDiv(MinOf(values) * binCount + i * (MaxOf(values) - MinOf(values)),
             binCount)

\* createHistogramBins(values, binCount)
HistogramBins(values, binCount) ==
    IF values = <<>> THEN <<>>
    ELSE [i \in 1..binCount |->
            [min |-> BinEdge(values, binCount, i - 1),
             max |-> BinEdge(values, binCount, i),
             count |-> Cardinality({k \in 1..Len(values) :
                          /\ values[k] >= BinEdge(values, binCount, i - 1)
                          /\ values[k] < BinEdge(values, binCount, i)})]]

\* ------------------------------- AnalyticsComponent: this.data.history
\* A session record of data.history, most-recent-first.  timestamp counts
\* hours, so that new Date(timestamp).getHours() is timestamp % 24; a field
\* the server left out is Undefined (NoDifficulty for the difficulty).
Undefined == -1
NoDifficulty == "undefined"

BaseSession ==
    [timestamp |-> 9, wpm |-> 80, accuracy |-> 90, difficulty |-> "medium",
     errors |-> 2, time_taken |-> 60, characters_typed |-> 100]

\* the sum of session[metric] over the positions from..to of history
RECURSIVE SumField(_, _, _, _)
SumField(history, metric, from, to) ==
    IF from > to THEN 0
    ELSE history[from][metric] + SumField(history, metric, from + 1, to)

\* calculateChange with recent and older taken the other way round
Change_WindowsSwapped(hasHistory, history, metric) ==
    IF ~hasHistory \/ Len(history) < 10 THEN 0
    ELSE LET recent == SumField(history, metric, Len(history) - 4,
                                Len(history))
             older == SumField(history, metric, 1, 5)
         IN IF older > 0 THEN RoundDiv(100 * (recent - older), older) ELSE 0

\* calculateChange(metric): recent = history.slice(0, 5), older =
\* history.slice(-5); both averages are sums over 5, so their quotient is
\* the quotient of the sums
Change(hasHistory, history, metric) ==
    IF ~hasHistory \/ Len(history) < 10 THEN 0
    ELSE LET recent == SumField(history, metric, 1, 5)
             older == SumField(history, metric, Len(history) - 4,
                               Len(history))
         IN IF older > 0 THEN RoundDiv(100 * (recent - older), older) ELSE 0

\* a <= b for fractions with positive denominators
FracLE(a, b) == a[1] * b[2] <= b[1] * a[2]

\* Math.min and Math.max of two numbers: NaN if either is NaN
FracMin(a, b) ==
    IF a = NaN \/ b = NaN THEN NaN ELSE IF FracLE(a, b) THEN a ELSE b
FracMax(a, b) ==
    IF a = NaN \/ b = NaN THEN NaN ELSE IF FracLE(a, b) THEN b ELSE a

\* sessions.map(s => s.wpm)
WpmOf(history) == [i \in 1..Len(history) |-> history[i].wpm]

\* a variance that divides by n - 1
Variance_Sample(values) ==
    IF values = <<>> THEN Frac(0, 1)
    ELSE LET n == Len(values)
             sum == SumSeq(values)
         IN Frac(SumSeq([i \in 1..n |-> (n * values[i] - sum)
                                          * (n * values[i] - sum)]),
                 n * n * (n - 1))

\* calculateVariance(values): with mean = sum / n, each squared difference
\* is (n * val - sum)^2 / n^2
Variance(values) ==
    IF values = <<>> THEN Frac(0, 1)
    ELSE LET n == Len(values)
             sum == SumSeq(values)
         IN Frac(SumSeq([i \in 1..n |-> (n * values[i] - sum)
                                          * (n * values[i] - sum)]),
                 n * n * n)

\* Math.max(0, 100 - (variance / 10))
ConsistencyScore(variance) ==
    FracMax(Frac(0, 1),
            Frac(1000 * variance[2] - variance[1], 10 * variance[2]))

\* calculateEnduranceScore(sessions)
EnduranceScore(history) ==
    LET long == {i \in 1..Len(history) :
                     /\ history[i].time_taken # Undefined
                     /\ history[i].time_taken > 120}
        sumLong == SumSeq([i \in 1..Len(history) |->
                             IF i \in long THEN history[i].wpm ELSE 0])
        sumAll == SumField(history, "wpm", 1, Len(history))
    IN IF long = {} THEN Frac(50, 1)
       ELSE FracMin(Frac(100, 1),
                    Frac(100 * sumLong * Len(history),
                         Cardinality(long) * sumAll))

\* calculateRadarScores(): speed, accuracy, consistency, endurance,
\* improvement; undefined + 50 is NaN
RadarScores(data) ==
    IF ~data.hasHistory \/ data.history = <<>>
    THEN [i \in 1..5 |-> Frac(0, 1)]
    ELSE LET h == data.history
             n == Len(h)
         IN <<FracMin(Frac(100 * SumField(h, "wpm", 1, n), 70 * n),
                      Frac(100, 1)),
              Frac(SumField(h, "accuracy", 1, n), n),
              ConsistencyScore(Variance(WpmOf(h))),
              EnduranceScore(h),
              IF data.improvement_rate = Undefined THEN NaN
              ELSE FracMax(Frac(0, 1),
                           FracMin(Frac(100, 1),
                                   Frac(data.improvement_rate + 50, 1)))>>

\* calculateDifficultyStats(sessions)
DifficultyStats(history) ==
    [k \in 1..3 |->
        LET difficulty == <<"easy", "medium", "hard">>[k]
            \* session.difficulty || 'medium'
            nameOf(session) ==
                IF session.difficulty = NoDifficulty THEN "medium"
                ELSE session.difficulty
            group == {i \in 1..Len(history) :
                         nameOf(history[i]) = difficulty}
            sumOf(metric) ==
                SumSeq([i \in 1..Len(history) |->
                          IF i \in group THEN history[i][metric] ELSE 0])
        IN [difficulty |-> difficulty,
            count |-> Cardinality(group),
            avgWpm |-> IF group = {} THEN Frac(0, 1)
                       ELSE Frac(sumOf("wpm"), Cardinality(group)),
            avgAccuracy |-> IF group = {} THEN Frac(0, 1)
                            ELSE Frac(sumOf("accuracy"), Cardinality(group))]]

\* a learning curve whose two windows are 5 sessions wide
LearningCurve_FiveWide(history) ==
    IF Len(history) < 5 THEN [skipped |-> TRUE]
    ELSE LET n == Len(history)
             recent == SumField(history, "wpm", 1, Min(5, n))
             older == SumField(history, "wpm", Max(1, n - 4), n)
         IN [skipped |-> FALSE,
             learningRate |-> Frac(100 * (recent - older), older)]

\* calculateLearningCurve(): the learningRate it displays; recent =
\* sessions.slice(0, 10) and older = sessions.slice(-10) have the same
\* length, so the quotient of the averages is the quotient of the sums
LearningCurve(history) ==
    IF Len(history) < 5 THEN [skipped |-> TRUE]
    ELSE LET n == Len(history)
             recent == SumField(history, "wpm", 1, Min(10, n))
             older == SumField(history, "wpm", Max(1, n - 9), n)
         IN [skipped |-> FALSE,
             learningRate |-> Frac(100 * (recent - older), older)]

\* new Date(session.timestamp).getHours()
HourOf(session) == session.timestamp % 24

\* hourlyPerformance[hour].total / hourlyPerformance[hour].count
HourAvg(history, hour) ==
    LET bucket == {i \in 1..Len(history) : HourOf(history[i]) = hour}
    IN Frac(SumSeq([i \in 1..Len(history) |->
                      IF i \in bucket THEN history[i].wpm ELSE 0]),
            Cardinality(bucket))

\* the forEach over Object.keys(hourlyPerformance), whose integer keys
\* come in ascending order, from the key hour on
RECURSIVE BestFrom(_, _, _)
BestFrom(history, hour, best) ==
    IF hour > 23 THEN best
    ELSE IF /\ \E i \in 1..Len(history) : HourOf(history[i]) = hour
            /\ ~FracLE(HourAvg(history, hour), best.bestWpm)
         THEN BestFrom(history, hour + 1,
                       [bestHour |-> hour,
                        bestWpm |-> HourAvg(history, hour)])
         ELSE BestFrom(history, hour + 1, best)

\* analyzeTimePatterns(): bestHour and bestWpm
TimePatterns(history) ==
    BestFrom(history, 0, [bestHour |-> 0, bestWpm |-> Frac(0, 1)])

\* The texts of an export are sequences of tokens: a separator, a piece of
\* literal text or the text of a value.

\* a row that keeps missing fields as they are
ExportRow_NoDefaults(session) == session

\* exportData: the object a session is mapped to
ExportRow(session) ==
    [timestamp |-> session.timestamp,
     wpm |-> session.wpm,
     accuracy |-> session.accuracy,
     difficulty |-> session.difficulty,
     errors |-> IF session.errors = Undefined THEN 0 ELSE session.errors,
     time_taken |-> IF session.time_taken = Undefined THEN 0
                    ELSE session.time_taken,
     characters_typed |-> IF session.characters_typed = Undefined THEN 0
                          ELSE session.characters_typed]

\* elements.join(sep): the elements with sep between them
RECURSIVE Join(_, _)
Join(elements, sep) ==
    IF elements = <<>> THEN <<>>
    ELSE IF Len(elements) = 1 THEN elements[1]
    ELSE elements[1] \o <<sep>> \o Join(Tail(elements), sep)

CsvHeaders ==
    <<"Timestamp", "WPM", "Accuracy", "Difficulty", "Errors", "Time Taken",
      "Characters Typed">>

\* row[field] === undefined; difficulty is the one field that is a string
IsUndefined(row, field) ==
    IF field = "difficulty" THEN row[field] = NoDifficulty
    ELSE row[field] = Undefined

\* String(row[field]) as join (undefined gives no text) and a template
\* literal (undefined gives "undefined") apply it; timestamps are kept as
\* numbers
FieldText(row, field, undefinedText) ==
    IF IsUndefined(row, field) THEN undefinedText
    ELSE IF field = "difficulty" THEN <<row[field]>>
    ELSE <<ToString(row[field])>>

\* exportToCSV(data): csvContent
CsvContent(data) ==
    Join(<<Join([k \in 1..7 |-> <<CsvHeaders[k]>>], ",")>>
           \o [i \in 1..Len(data) |->
                 Join([k \in 1..7 |->
                         FieldText(data[i],
                                   <<"timestamp", "wpm", "accuracy",
                                     "difficulty", "errors", "time_taken",
                                     "characters_typed">>[k],
                                   <<>>)],
                      ",")],
         "\n")

\* exportToJSON(data): the object that jsonContent is the JSON text of;
\* JSON.stringify leaves out a key whose value is undefined
JsonContent(data, now) ==
    [exported_at |-> now,
     total_sessions |-> Len(data),
     data |-> [i \in 1..Len(data) |->
                 [k \in {f \in DOMAIN data[i] : ~IsUndefined(data[i], f)} |->
                     data[i][k]]]]

\* text.trim() for a text whose blank pieces hold whitespace only
RECURSIVE TrimText(_)
TrimText(text) ==
    IF text # <<>> /\ Head(text) \in {"\n", "        "}
    THEN TrimText(Tail(text))
    ELSE IF text # <<>> /\ text[Len(text)] \in {"\n", "        "}
         THEN TrimText(SubSeq(text, 1, Len(text) - 1))
         ELSE text

\* exportToPDF(data): content
PdfContent(data, now) ==
    TrimText(
        <<"\n", "TypeTrack Analytics Report", "\n",
          "Generated: ", ToString(now), "\n",
          "\n",
          "Summary:", "\n",
          "- Total Sessions: ", ToString(Len(data)), "\n",
          "- Average WPM: ", "${this.data.average_wpm}", "\n",
          "- Best WPM: ", "${this.data.best_wpm}", "\n",
          "- Average Accuracy: ", "${this.data.average_accuracy}", "%", "\n",
          "\n",
          "Session Details:", "\n">>
        \o Join([i \in 1..Len(data) |->
                   FieldText(data[i], "timestamp", <<"undefined">>)
                     \o <<": ">>
                     \o FieldText(data[i], "wpm", <<"undefined">>)
                     \o <<" WPM, ">>
                     \o FieldText(data[i], "accuracy", <<"undefined">>)
                     \o <<"% accuracy, ">>
                     \o FieldText(data[i], "difficulty", <<"undefined">>)
                     \o <<" difficulty">>],
                "\n")
        \o <<"\n", "        ">>)

DigitChars == <<"0", "1", "2", "3", "4", "5", "6", "7", "8", "9">>

\* n.toString() for an integer n >= 0, as a sequence of characters
RECURSIVE Digits(_)
Digits(n) ==
    IF n < 10 THEN <<DigitChars[n + 1]>>
    ELSE Digits(n \div 10) \o <<DigitChars[(n % 10) + 1]>>

\* s.padStart(targetLength, pad) for a pad of one character
RECURSIVE PadStart(_, _, _)
PadStart(s, targetLength, pad) ==
    IF Len(s) >= targetLength THEN s
    ELSE PadStart(<<pad>> \o s, targetLength, pad)

\* a formatTime that wraps the minutes at the hour
FormatTime_MinutesWrapped(seconds) ==
    LET minutes == (seconds[1] \div (60 * seconds[2])) % 60
        remainingSeconds == (seconds[1] % (60 * seconds[2])) \div seconds[2]
    IN Digits(minutes) \o <<":">> \o PadStart(Digits(remainingSeconds), 2, "0")

\* formatTime(seconds) for seconds = seconds[1] / seconds[2] >= 0
FormatTime(seconds) ==
    LET minutes == seconds[1] \div (60 * seconds[2])
        remainingSeconds == (seconds[1] % (60 * seconds[2])) \div seconds[2]
    IN Digits(minutes) \o <<":">> \o PadStart(Digits(remainingSeconds), 2, "0")

\* a moving average over a window of 6
MovingAverage_SixWide(sessions) ==
    [i \in 1..Len(sessions) |->
        LET start == Max(1, i - 6 + 1)
        IN Frac(SumField(sessions, "wpm", start, i), i - start + 1)]

\* calculateTrendData: movingAverage over sessions, windowSize = 7
MovingAverage(sessions) ==
    [i \in 1..Len(sessions) |->
        LET start == Max(1, i - 7 + 1)
        IN Frac(SumField(sessions, "wpm", start, i), i - start + 1)]

\* calculateTrendData(): the sessions it takes, and what it returns for them
TrendData(history) ==
    LET sessions == SubSeq(history, Max(1, Len(history) - 30 + 1),
                           Len(history))
    IN [sessions |-> sessions,
        movingAverage |-> MovingAverage(sessions),
        trendLine |-> LinearRegression(WpmOf(sessions))]

WpmValues == {0, 80}

SessionsUpTo(n, sessions) == UNION {[1..k -> sessions] : k \in 0..n}

\* this.data.history as the response of /analytics sets it, most recent
\* session first
Histories ==
    \* sessions that differ in wpm only
    SessionsUpTo(MaxHistory, {[BaseSession EXCEPT !.wpm = w] : w \in WpmValues})
    \* in difficulty: a group name, none, or a name that is no group
    \cup SessionsUpTo(MaxShort,
            {[BaseSession EXCEPT !.difficulty = d] :
                d \in {"easy", "medium", "hard", NoDifficulty, "expert"}})
    \* in the hour of day and in wpm
    \cup SessionsUpTo(MaxShort,
            {[BaseSession EXCEPT !.timestamp = t, !.wpm = w] :
                t \in {0, 9, 14}, w \in WpmValues})
    \* in timestamp and difficulty and in whether errors, time_taken and
    \* characters_typed are there
    \cup SessionsUpTo(MaxShort,
            {[BaseSession EXCEPT !.timestamp = t, !.difficulty = d] :
                t \in {1, 2}, d \in {"easy", NoDifficulty}}
            \cup {[BaseSession EXCEPT !.timestamp = t, !.difficulty = d,
                                     !.errors = Undefined,
                                     !.time_taken = Undefined,
                                     !.characters_typed = Undefined] :
                     t \in {1, 2}, d \in {"easy", NoDifficulty}})
    \* the first count sessions of a user: session number k has timestamp k
    \* and a wpm of 40 + k
    \cup {[i \in 1..count |->
             [BaseSession EXCEPT !.timestamp = count - i + 1,
                                 !.wpm = 40 + (count - i + 1)]] :
            count \in 0..MaxTrend}

\* this.data: the constructor's {}, which has no history, the response of
\* /analytics with a history, and responses that differ in wpm, time_taken
\* and improvement_rate
HistoryArgs ==
    {[hasHistory |-> FALSE, history |-> <<>>, improvement_rate |-> Undefined]}
        \cup [hasHistory : {TRUE}, history : Histories,
              improvement_rate : {10}]
        \cup [hasHistory : {TRUE},
              history : SessionsUpTo(MaxShort,
                            {[BaseSession EXCEPT !.wpm = w, !.time_taken = t] :
                                w \in WpmValues, t \in {Undefined, 60, 180}}),
              improvement_rate : {Undefined, -60, 10, 70}]

Series == UNION {[1..k -> 0..MaxVal] : k \in 0..MaxN}

\* createDistributionChart asks for 10 bins
BinCounts == {1, 2, 10}

InitStats ==
    /\ arg \in [values : Series] \cup HistoryArgs
               \cup [seconds : {<<n, d>> :
                                   n \in (0..MaxSeconds)
                                            \cup {3599, 3600, 3661, 7325},
                                   d \in {1, 2}}]
    /\ result = NoResult
    /\ SessionInit /\ clock = 0 /\ LoadInit /\ RefreshInit /\ AuthInit
    /\ FeedInit

CalculateLinearRegression ==
    /\ "values" \in DOMAIN arg
    /\ result' = [fn |-> "calculateLinearRegression",
                  value |-> LinearRegression(arg.values)]
    /\ UNCHANGED <<arg, sessionVars, loadVars, refreshVars, authVars, feedVars>>

CreateHistogramBins(binCount) ==
    /\ "values" \in DOMAIN arg
    /\ result' = [fn |-> "createHistogramBins", binCount |-> binCount,
                  value |-> HistogramBins(arg.values, binCount)]
    /\ UNCHANGED <<arg, sessionVars, loadVars, refreshVars, authVars, feedVars>>

\* calculateChange(metric), as updateAnalyticsDisplay calls it
CalculateChange(metric) ==
    /\ "history" \in DOMAIN arg
    /\ result' = [fn |-> "calculateChange", metric |-> metric,
                  value |-> Change(arg.hasHistory, arg.history, metric)]
    /\ UNCHANGED <<arg, sessionVars, loadVars, refreshVars, authVars, feedVars>>

\* calculateRadarScores(), as createRadarChart calls it
CalculateRadarScores ==
    /\ "history" \in DOMAIN arg
    /\ result' = [fn |-> "calculateRadarScores", value |-> RadarScores(arg)]
    /\ UNCHANGED <<arg, sessionVars, loadVars, refreshVars, authVars, feedVars>>

\* updateDetailedStats(): the variance and the consistency score among the
\* values it displays
UpdateDetailedStats ==
    /\ "history" \in DOMAIN arg
    /\ result' = [fn |-> "updateDetailedStats",
                  value |-> IF ~arg.hasHistory THEN [skipped |-> TRUE]
                            ELSE [skipped |-> FALSE,
                                  variance |-> Variance(WpmOf(arg.history)),
                                  consistencyScore |->
                                      ConsistencyScore(
                                          Variance(WpmOf(arg.history)))]]
    /\ UNCHANGED <<arg, sessionVars, loadVars, refreshVars, authVars, feedVars>>

\* calculateDifficultyStats(sessions), as updateDetailedStats calls it
CalculateDifficultyStats ==
    /\ "history" \in DOMAIN arg /\ arg.hasHistory
    /\ result' = [fn |-> "calculateDifficultyStats",
                  value |-> DifficultyStats(arg.history)]
    /\ UNCHANGED <<arg, sessionVars, loadVars, refreshVars, authVars, feedVars>>

\* calculateLearningCurve(), as calculateAdvancedMetrics calls it
CalculateLearningCurve ==
    /\ "history" \in DOMAIN arg /\ arg.hasHistory
    /\ result' = [fn |-> "calculateLearningCurve",
                  value |-> LearningCurve(arg.history)]
    /\ UNCHANGED <<arg, sessionVars, loadVars, refreshVars, authVars, feedVars>>

\* analyzeTimePatterns(), as analyzePerformancePatterns calls it
AnalyzeTimePatterns ==
    /\ "history" \in DOMAIN arg /\ arg.hasHistory
    /\ result' = [fn |-> "analyzeTimePatterns",
                  value |-> TimePatterns(arg.history)]
    /\ UNCHANGED <<arg, sessionVars, loadVars, refreshVars, authVars, feedVars>>

\* formatTime(seconds)
FormatTimeCall ==
    /\ "seconds" \in DOMAIN arg
    /\ result' = [fn |-> "formatTime", value |-> FormatTime(arg.seconds)]
    /\ UNCHANGED <<arg, sessionVars, loadVars, refreshVars, authVars, feedVars>>

\* calculateTrendData(), as createTrendAnalysis calls it
CalculateTrendData ==
    /\ "history" \in DOMAIN arg /\ arg.hasHistory
    /\ result' = [fn |-> "calculateTrendData",
                  value |-> TrendData(arg.history)]
    /\ UNCHANGED <<arg, sessionVars, loadVars, refreshVars, authVars, feedVars>>

\* the chart of createProgressChart: history.slice(-20).reverse(), one
\* label 'Test k' and one wpm value per session
ProgressChart(history) ==
    LET n == Len(history)
        taken == SubSeq(history, Max(1, n - 20 + 1), n)
        recentHistory == [i \in 1..Len(taken) |-> taken[Len(taken) - i + 1]]
    IN [drawn |-> TRUE,
        sessions |-> recentHistory,
        labels |-> [i \in 1..Len(recentHistory) |-> i],
        data |-> WpmOf(recentHistory)]

\* createProgressChart of either component.  TypeTrackPro writes 'No data
\* available' for a missing or empty history; AnalyticsComponent returns
\* when there is no history.
CreateProgressChart(component) ==
    /\ "history" \in DOMAIN arg
    /\ result' =
          [fn |-> "createProgressChart", component |-> component,
           value |->
               IF \/ ~arg.hasHistory
                  \/ component = "TypeTrackPro" /\ arg.history = <<>>
               THEN [drawn |-> FALSE]
               ELSE ProgressChart(arg.history)]
    /\ UNCHANGED <<arg, sessionVars, loadVars, refreshVars, authVars, feedVars>>

\* exportData(format), called at instant 0
ExportData(format) ==
    /\ "history" \in DOMAIN arg
    /\ result' =
          [fn |-> "exportData", format |-> format,
           value |->
               IF ~arg.hasHistory
               THEN [exported |-> FALSE, notification |-> "warning"]
               ELSE LET data == [i \in 1..Len(arg.history) |->
                                    ExportRow(arg.history[i])]
                    IN [exported |-> TRUE,
                        notification |-> "success",
                        extension |-> IF format = "pdf" THEN "txt" ELSE format,
                        content |->
                            IF format = "csv" THEN CsvContent(data)
                            ELSE IF format = "json" THEN JsonContent(data, 0)
                            ELSE PdfContent(data, 0)]]
    /\ UNCHANGED <<arg, sessionVars, loadVars, refreshVars, authVars, feedVars>>

NextStats ==
    \/ CalculateLinearRegression
    \/ CalculateTrendData
    \/ \E component \in {"TypeTrackPro", "AnalyticsComponent"} :
          CreateProgressChart(component)
    \/ FormatTimeCall
    \/ \E format \in {"csv", "json", "pdf"} : ExportData(format)
    \/ UpdateDetailedStats
    \/ CalculateDifficultyStats
    \/ CalculateLearningCurve
    \/ AnalyzeTimePatterns
    \/ CalculateRadarScores
    \/ \E binCount \in BinCounts : CreateHistogramBins(binCount)
    \/ \E metric \in {"wpm", "accuracy"} : CalculateChange(metric)

SpecStats == InitStats /\ [][NextStats]_vars

\* ------------------------------------------------------------- properties
Armed == currentTest # NoTest /\ currentTest.startTime = Null

Started == currentTest # NoTest /\ currentTest.startTime # Null

\* C1: a test completed by typing is submitted once: no second payload is
\* sent by a grace callback for the same test, and no payload at all is sent
\* for a test whose submission has already succeeded.
C1_SubmittedOnce ==
    last.sent => ~last.afterOk /\ ~(last.trigger = "grace" /\ last.afterGrace)

\* C2: whenever the test is not Running (no test, Armed, or a submit attempt
\* for it has been answered), state.timer is null and no interval is active.
C2_TimerCleared ==
    (currentTest = NoTest \/ Armed \/ hist.ok \/ hist.failed)
        => timer = Null /\ intervals = {}

\* C3: right after a failed submission of the current test the session is
\* Finished: currentTest retained, timer stopped, input disabled.
C3_FailedIsFinished ==
    (last.op = "submitFail" /\ currentTest # NoTest /\ last.test = currentTest.id)
        => timer = Null /\ intervals = {} /\ inputDisabled

\* C4: once a submission of the current test has failed, every further
\* submission request for it comes from the explicit submit action.
C4_NoAutoRetry ==
    (last.sent /\ last.afterFail) => last.trigger = "manual"

\* C5: a timer callback only ever submits the test it was scheduled for.
C5_OldSessionDiscarded ==
    last.sent => last.origin = last.test

\* C6: a response is stored in this.data only if it answers the most
\* recently issued request of its component.
C6_NoStaleApplied ==
    [][/\ lbData' # lbData => lbData' = lbIssued
       /\ anData' # anData => anData' = anIssued]_vars

\* C7: an interval tick submits the test exactly when the test has been
\* started and more than 300000 ms have passed since its startTime.
C7_TimeoutForcesSubmit ==
    last.op = "tick" =>
        (last.sent <=> Started /\ clock - currentTest.startTime > 300000)

C7_Witness ==
    /\ last.op = "tick" /\ last.sent /\ last.trigger = "timeout"
    /\ Started /\ clock - currentTest.startTime > 300000

\* C8: while Armed no timer runs; the first input event of a test sets
\* startTime and starts the timer; later input events of the test leave
\* startTime and the timer alone.
C8_ArmedUntilFirstInput ==
    /\ [](Armed => timer = Null /\ intervals = {})
    /\ [][(inputValue' # inputValue /\ currentTest # NoTest /\ Started')
            => IF Armed
               THEN /\ currentTest'.startTime = clock
                    /\ timer' # Null
                    /\ timer' \in intervals'
               ELSE /\ currentTest'.startTime = currentTest.startTime
                    /\ timer' = timer
                    /\ intervals' = intervals]_vars

\* C9: a failed prompt fetch in Idle leaves currentTest null, starts no
\* timer, leaves the metrics unchanged and shows an error notification.
C9_PromptFailStaysIdle ==
    [][(/\ currentTest = NoTest
        /\ promptsInFlight' = promptsInFlight - 1
        /\ last'.op = "promptFail")
          => /\ currentTest' = NoTest
             /\ timer' = timer
             /\ intervals' = intervals
             /\ metrics' = metrics
             /\ last'.notified = "error"]_vars

C9_Witness ==
    /\ last.op = "promptFail" /\ last.notified = "error"
    /\ currentTest = NoTest
    /\ metrics.wpm = 42

\* the metrics a fresh test starts with
FreshMetrics(m) ==
    m.wpm = 0 /\ m.accuracy = 100 /\ m.progress = <<0, 1>> /\ m.errors = 0

\* C10 as stated: while the session is Armed the metrics are the reset
\* values.
C10_ArmedMetricsReset ==
    Armed => FreshMetrics(metrics)

\* C10 as amended: a successful start-new-test resets the metrics, and while
\* the session stays Armed only updateMetrics changes them.
C10_ArmedMetricsChangeOnlyByPush ==
    /\ [](last.op = "promptOk" => Armed /\ FreshMetrics(metrics))
    /\ [][(Armed /\ Armed' /\ currentTest' = currentTest /\ metrics' # metrics)
            => last'.op = "updateMetrics"]_vars

C10_Witness ==
    /\ Armed /\ currentTest.id > 1
    /\ last.op = "updateMetrics"
    /\ metrics.wpm = 42 /\ metrics.errors = 0

\* C11: once destroy() has run, loadLeaderboardData is not called by the
\* auto-refresh interval, nor by a reload timeout that handleRealtimeUpdate
\* scheduled before destroy().
C11_NoLoadAfterDestroy ==
    lbDestroyed =>
        /\ lbLast.op # "intervalLoad"
        /\ ~(lbLast.op = "timeoutLoad" /\ lbLast.early)

\* the positions at which typed and prompt agree, counted from the front
RECURSIVE MatchCount(_, _)
MatchCount(typed, prompt) ==
    IF typed = <<>> \/ prompt = <<>> THEN 0
    ELSE (IF Head(typed) = Head(prompt) THEN 1 ELSE 0)
            + MatchCount(Tail(typed), Tail(prompt))

\* the non-empty whitespace-separated tokens of s
TokenCount(s) ==
    Cardinality({i \in 1..Len(s) :
                    ~IsSpace(s[i]) /\ (i = 1 \/ IsSpace(s[i - 1]))})

\* a finite number n / d within [0, 100]
IsPercent(q) == q[2] > 0 /\ 0 <= q[1] /\ q[1] <= 100 * q[2]

\* C12: for every typed string and prompt the live snapshot has accuracy in
\* [0,100] and errors = len(typed) - correctCount >= 0.
C12_LiveMetricsInRange ==
    result.fn = "calculateLocalMetrics" =>
        /\ result.value.accuracy \in 0..100
        /\ result.value.errors
              = Len(arg.input) - MatchCount(arg.input, arg.prompt)
        /\ result.value.errors >= 0

C12_Witness ==
    /\ result.fn = "calculateLocalMetrics"
    /\ arg.prompt # <<>> /\ Len(arg.input) > Len(arg.prompt)
    /\ result.value.accuracy = 100 /\ result.value.errors > 0

\* C13: every submitted payload has 0 <= errors <= characters_typed and an
\* accuracy in [0,100] that is 100 * (characters_typed - errors) / len(prompt)
\* (to the two decimals the payload keeps).
C13_PayloadInvariant ==
    result.fn = "submitTest" =>
        /\ 0 <= result.value.errors
        /\ result.value.errors <= result.value.characters_typed
        /\ IsPercent(result.value.accuracy)
        /\ result.value.accuracy =
              Rat(RoundDiv(10000 * (result.value.characters_typed
                                      - result.value.errors),
                           Len(arg.prompt)), 100)

\* C14: with an empty prompt the live snapshot and the submitted payload
\* have accuracy 100, and the live progress is a number.
C14_EmptyPromptGuarded ==
    arg.prompt = <<>> =>
        /\ result.fn = "calculateLocalMetrics" =>
              result.value.accuracy = 100 /\ result.value.progress[2] > 0
        /\ result.fn = "submitTest" => result.value.accuracy = Rat(100, 1)

\* C15: wpm is the word count divided by the elapsed minutes, and 0 when no
\* time has elapsed, in the live snapshot (rounded to an integer) and in the
\* submitted payload (to two decimals).  The words are counted as the code
\* counts them.
C15_WpmZeroBeforeTime ==
    /\ result.fn = "calculateLocalMetrics" =>
          result.value.wpm =
              IF arg.elapsedMs = 0 THEN 0
              ELSE RoundDiv(WordCount(arg.input) * 60000, arg.elapsedMs)
    /\ result.fn = "submitTest" =>
          result.value.wpm =
              IF arg.elapsedMs = 0 THEN Rat(0, 1)
              ELSE Rat(RoundDiv(WordCount(arg.input) * 6000000,
                                arg.elapsedMs), 100)

\* C16: the word count is the number of non-empty whitespace-separated
\* tokens; after exactly one minute the wpm is that count.
C16_WordCountIsTokenCount ==
    arg.elapsedMs = 60000 =>
        /\ result.fn = "calculateLocalMetrics" =>
              result.value.wpm = TokenCount(arg.input)
        /\ result.fn = "submitTest" =>
              result.value.wpm = Rat(TokenCount(arg.input), 1)

\* typed is prompt with two adjacent, different characters swapped
IsAdjacentSwap(typed, prompt) ==
    /\ Len(typed) = Len(prompt)
    /\ \E i \in 1..(Len(prompt) - 1) :
          /\ prompt[i] # prompt[i + 1]
          /\ typed = [prompt EXCEPT ![i] = prompt[i + 1],
                                    ![i + 1] = prompt[i]]

\* C17: an input that is the prompt with two adjacent characters swapped is
\* scored with len(prompt) - 1 correct characters.
C17_AdjacentSwapScoresOneTypo ==
    (result.fn = "calculateLocalMetrics"
        /\ IsAdjacentSwap(arg.input, arg.prompt)) =>
        /\ result.value.errors = 1
        /\ result.value.accuracy
              = RoundDiv(100 * (Len(arg.prompt) - 1), Len(arg.prompt))

\* C18: createHistogramBins places every value in exactly one bin: for a
\* non-empty list the counts of the bins sum to len(values).
C18_BinCountsSumToLength ==
    (result.fn = "createHistogramBins" /\ arg.values # <<>>) =>
        SumSeq([i \in 1..Len(result.value) |-> result.value[i].count])
            = Len(arg.values)

\* C19: calculateLinearRegression returns an empty list for an empty series,
\* and for a series of one value a flat line at the mean or an empty list.
C19_RegressionDegenerateGuarded ==
    result.fn = "calculateLinearRegression" =>
        /\ Len(arg.values) = 0 => result.value = <<>>
        /\ Len(arg.values) = 1 =>
              \/ result.value = <<>>
              \/ result.value = <<Frac(arg.values[1], 1)>>

\* y_i = a + b * i for integers a, b
IsLinear(values) ==
    \A i \in 2..Len(values) :
        values[i] - values[i - 1] = values[2] - values[1]

\* C20: for a perfectly linear series of at least 2 points the regression
\* recovers slope b and intercept a, and the fitted values are the series.
C20_LinearSeriesRecovered ==
    (/\ result.fn = "calculateLinearRegression"
     /\ Len(arg.values) >= 2
     /\ IsLinear(arg.values)) =>
        /\ RegressionSlope(arg.values)
              = Frac(arg.values[2] - arg.values[1], 1)
        /\ RegressionIntercept(arg.values) = Frac(arg.values[1], 1)
        /\ \A i \in 1..Len(arg.values) :
              result.value[i] = Frac(arg.values[i], 1)

C20_Witness ==
    /\ result.fn = "calculateLinearRegression"
    /\ Len(arg.values) >= 3 /\ IsLinear(arg.values)
    /\ arg.values[2] > arg.values[1] /\ arg.values[1] > 0
    /\ result.value = [i \in 1..Len(arg.values) |-> <<arg.values[i], 1>>]

\* C21: calculateChange(metric) is 0 when history is missing or shorter
\* than 10 and when the average of the last 5 records is 0; otherwise it is
\* 100 * (avg(first 5) - avg(last 5)) / avg(last 5) rounded to the nearest
\* integer.
C21_ChangeOfFirstAgainstLastFive ==
    result.fn = "calculateChange" =>
        LET h == arg.history
            m == result.metric
            first == SumField(h, m, 1, 5)
            lastFive == SumField(h, m, Len(h) - 4, Len(h))
        IN IF ~arg.hasHistory \/ Len(h) < 10 THEN result.value = 0
           ELSE IF lastFive = 0 THEN result.value = 0
           ELSE 2 * Abs(result.value * lastFive - 100 * (first - lastFive))
                    <= lastFive

C21_Witness ==
    /\ result.fn = "calculateChange" /\ result.metric = "wpm"
    /\ arg.hasHistory /\ Len(arg.history) >= 10
    /\ arg.history[1].wpm # arg.history[Len(arg.history)].wpm
    /\ result.value < 0 /\ result.value > -100

\* C22: each of the five radar scores is a number in [0,100], for every
\* history of valid sessions (all wpm 0 included) and also when the
\* analytics data has no improvement_rate.
C22_RadarScoresInRange ==
    result.fn = "calculateRadarScores" =>
        \A i \in 1..5 : IsPercent(result.value[i])

\* C23: calculateDifficultyStats counts every session in exactly one of
\* easy, medium and hard, a missing or unknown difficulty under medium: the
\* three counts sum to the number of sessions.
C23_EverySessionInOneGroup ==
    result.fn = "calculateDifficultyStats" =>
        /\ result.value[1].count + result.value[2].count
              + result.value[3].count = Len(arg.history)
        /\ result.value[2].count =
              Cardinality({i \in 1..Len(arg.history) :
                              arg.history[i].difficulty
                                  \notin {"easy", "hard"}})

\* C24: calculateLearningCurve is skipped below 5 sessions and otherwise
\* yields a defined percentage, also when the older window averages 0.
C24_LearningRateDefined ==
    result.fn = "calculateLearningCurve" =>
        IF Len(arg.history) < 5 THEN result.value.skipped
        ELSE ~result.value.skipped /\ result.value.learningRate[2] > 0

\* C25: for a non-empty history, bestHour is the hour of at least one
\* session and no hour with sessions has a higher average wpm.
C25_BestHourIsBestBucket ==
    (result.fn = "analyzeTimePatterns" /\ arg.history # <<>>) =>
        /\ \E i \in 1..Len(arg.history) :
              HourOf(arg.history[i]) = result.value.bestHour
        /\ \A i \in 1..Len(arg.history) :
              FracLE(HourAvg(arg.history, HourOf(arg.history[i])),
                     HourAvg(arg.history, result.value.bestHour))

\* the population variance written as mean of squares minus squared mean
MeanSquareMinusSquareMean(values) ==
    LET n == Len(values)
    IN Frac(n * SumSeq([i \in 1..n |-> values[i] * values[i]])
              - SumSeq(values) * SumSeq(values),
            n * n)

\* C26: the variance is the population variance of the wpm values, it is 0
\* for a constant series, which gives a consistency score of 100, and the
\* consistency score is max(0, 100 - variance / 10), within [0,100].
C26_ConsistencyFromPopulationVariance ==
    (result.fn = "updateDetailedStats" /\ arg.hasHistory) =>
        LET wpm == WpmOf(arg.history)
            v == result.value.variance
            c == result.value.consistencyScore
        IN /\ wpm # <<>> => v = MeanSquareMinusSquareMean(wpm)
           /\ (\A i \in 1..Len(wpm) : wpm[i] = wpm[1]) =>
                 v = <<0, 1>> /\ c = <<100, 1>>
           /\ IsPercent(c)
           /\ IF v[1] >= 1000 * v[2] THEN c = <<0, 1>>
              ELSE c[1] * 10 * v[2] = (1000 * v[2] - v[1]) * c[2]

C26_Witness ==
    /\ result.fn = "updateDetailedStats" /\ arg.hasHistory
    /\ Len(arg.history) >= 3
    /\ result.value.variance[1] > 0
    /\ result.value.consistencyScore[1] > 0
    /\ result.value.consistencyScore[1] < 100 * result.value.consistencyScore[2]

\* an email that holds name@domain.tld: an "@" right after a character that
\* is no whitespace, then one or more characters that are no whitespace, a
\* ".", and a character that is no whitespace
IsNameAtDomainTld(email) ==
    \E p \in 2..Len(email), q \in 1..(Len(email) - 1) :
        /\ email[p] = "@" /\ email[q] = "."
        /\ ~IsSpace(email[p - 1])
        /\ q >= p + 2
        /\ \A j \in (p + 1)..(q - 1) : ~IsSpace(email[j])
        /\ ~IsSpace(email[q + 1])

\* C27: login with an empty username or password, and register with a
\* username shorter than 3 characters, an email that does not hold
\* name@domain.tld or a password shorter than 6 characters, issue no API
\* request and leave token, isAuthenticated and currentUser unchanged.
C27_InvalidCredentialsRejected ==
    [][(\/ /\ authLast'.op = "login"
           /\ (form.username = <<>> \/ form.password = <<>>)
        \/ /\ authLast'.op = "register"
           /\ \/ Len(form.username) < 3
              \/ ~IsNameAtDomainTld(form.email)
              \/ Len(form.password) < 6)
       => /\ ~authLast'.sent
          /\ authInFlight' = authInFlight
          /\ token' = token
          /\ isAuthenticated' = isAuthenticated
          /\ currentUser' = currentUser]_vars

C27_Witness ==
    /\ authLast.op = "register" /\ ~authLast.sent
    /\ form.kind = "register"
    /\ Len(form.username) >= 3 /\ Len(form.password) >= 6
    /\ \E i \in 1..Len(form.email) : form.email[i] = "@"
    /\ \E i \in 1..Len(form.email) : form.email[i] = "."

\* text.split(sep): the pieces of text between the separators
RECURSIVE SplitOn(_, _)
SplitOn(text, sep) ==
    IF \A i \in 1..Len(text) : text[i] # sep THEN <<text>>
    ELSE LET k == CHOOSE i \in 1..Len(text) :
                      text[i] = sep /\ \A j \in 1..(i - 1) : text[j] # sep
         IN <<SubSeq(text, 1, k - 1)>>
              \o SplitOn(SubSeq(text, k + 1, Len(text)), sep)

NumberOrZero(value) == IF value = Undefined THEN "0" ELSE ToString(value)

\* C28: each export holds one entry per record of history, in history
\* order: the CSV is the 7-column header line and then one row of 7 fields
\* per record, the JSON has total_sessions = len(history) = the length of
\* its data array, the text report has one line per session; missing
\* errors, time_taken and characters_typed are exported as 0.
C28_OneEntryPerRecord ==
    (result.fn = "exportData" /\ arg.hasHistory) =>
        LET h == arg.history
            content == result.value.content
        IN /\ result.value.exported
           /\ result.format = "csv" =>
                 LET lines == SplitOn(content, "\n")
                 IN /\ Len(lines) = Len(h) + 1
                    /\ SplitOn(lines[1], ",") =
                          [k \in 1..7 |-> <<CsvHeaders[k]>>]
                    /\ \A i \in 1..Len(h) :
                          LET fields == SplitOn(lines[i + 1], ",")
                          IN /\ Len(fields) = 7
                             /\ fields[1] = <<ToString(h[i].timestamp)>>
                             /\ fields[2] = <<ToString(h[i].wpm)>>
                             /\ fields[5] = <<NumberOrZero(h[i].errors)>>
                             /\ fields[6] = <<NumberOrZero(h[i].time_taken)>>
                             /\ fields[7] =
                                   <<NumberOrZero(h[i].characters_typed)>>
           /\ result.format = "json" =>
                 /\ content.total_sessions = Len(h)
                 /\ Len(content.data) = Len(h)
                 /\ \A i \in 1..Len(h) :
                       /\ content.data[i].timestamp = h[i].timestamp
                       /\ h[i].errors = Undefined =>
                             content.data[i].errors = 0
                       /\ h[i].time_taken = Undefined =>
                             content.data[i].time_taken = 0
                       /\ h[i].characters_typed = Undefined =>
                             content.data[i].characters_typed = 0
           /\ result.format = "pdf" =>
                 LET lines == SplitOn(content, "\n")
                 IN /\ Len(lines) = 10 + Len(h)
                    /\ lines[10] = <<"Session Details:">>
                    /\ \A i \in 1..Len(h) :
                          /\ lines[10 + i][1] = ToString(h[i].timestamp)
                          /\ lines[10 + i][3] = ToString(h[i].wpm)

C28_Witness ==
    /\ result.fn = "exportData" /\ result.format = "csv"
    /\ arg.hasHistory /\ Len(arg.history) >= 2
    /\ arg.history[1].timestamp # arg.history[2].timestamp
    /\ arg.history[1].errors = Undefined
    /\ arg.history[2].errors # Undefined
    /\ arg.history[2].difficulty = NoDifficulty

\* the number that a sequence of digit characters is the decimal text of
RECURSIVE NumberOf(_)
NumberOf(digits) ==
    IF digits = <<>> THEN 0
    ELSE 10 * NumberOf(SubSeq(digits, 1, Len(digits) - 1))
           + (CHOOSE k \in 0..9 : DigitChars[k + 1] = digits[Len(digits)])

IsNumeral(digits) ==
    /\ digits # <<>>
    /\ \A i \in 1..Len(digits) : \E k \in 1..10 : DigitChars[k] = digits[i]
    /\ Len(digits) > 1 => digits[1] # "0"

\* C29: formatTime(s) for s >= 0 is floor(s / 60), a colon and
\* floor(s mod 60) padded to two digits, the minutes not wrapped at 60;
\* 125 gives "2:05", 59 gives "0:59" and 3661 gives "61:01".
C29_FormatTimeMinutesAndSeconds ==
    result.fn = "formatTime" =>
        LET whole == arg.seconds[1] \div arg.seconds[2]
            text == result.value
            minutes == SubSeq(text, 1, Len(text) - 3)
            seconds == SubSeq(text, Len(text) - 1, Len(text))
        IN /\ Len(text) >= 4
           /\ text[Len(text) - 2] = ":"
           /\ IsNumeral(minutes)
           /\ NumberOf(minutes) = whole \div 60
           /\ \A i \in 1..2 : \E k \in 1..10 : DigitChars[k] = seconds[i]
           /\ NumberOf(seconds) = whole % 60
           /\ arg.seconds = <<125, 1>> => text = <<"2", ":", "0", "5">>
           /\ arg.seconds = <<59, 1>> => text = <<"0", ":", "5", "9">>
           /\ arg.seconds = <<3661, 1>> =>
                 text = <<"6", "1", ":", "0", "1">>

C29_Witness ==
    /\ result.fn = "formatTime"
    /\ arg.seconds = <<7325, 2>>
    /\ result.value = <<"6", "1", ":", "0", "2">>

\* the count most recent records of a most-recent-first history, arranged
\* most-recent-last
MostRecentLast(history, count) ==
    LET k == Min(count, Len(history))
    IN [i \in 1..k |-> history[k - i + 1]]

\* C30: the series of calculateTrendData is the 30 most recent records of
\* the most-recent-first history, arranged most-recent-last.
C30_TrendSeriesIsLastThirty ==
    result.fn = "calculateTrendData" =>
        result.value.sessions = MostRecentLast(arg.history, 30)

\* C31: the moving average of calculateTrendData has one value per session
\* of its series; the value at the 0-based position i is the mean wpm over
\* the positions max(0, i - 6) .. i: expanding for i < 6, 7 wide afterwards.
C31_MovingAverageTrailingSeven ==
    result.fn = "calculateTrendData" =>
        LET series == result.value.sessions
            average == result.value.movingAverage
        IN /\ Len(average) = Len(series)
           /\ \A i \in 0..(Len(series) - 1) :
                 LET first == IF i < 6 THEN 0 ELSE i - 6
                     window == [k \in 1..(i - first + 1) |->
                                   series[first + k].wpm]
                 IN /\ Len(window) = (IF i < 6 THEN i + 1 ELSE 7)
                    /\ average[i + 1][2] > 0
                    /\ average[i + 1][1] * Len(window) =
                          SumSeq(window) * average[i + 1][2]

C31_Witness ==
    /\ result.fn = "calculateTrendData"
    /\ Len(result.value.sessions) >= 9
    /\ result.value.movingAverage[9] # result.value.movingAverage[8]
    /\ result.value.movingAverage[3] # result.value.movingAverage[2]

\* C32: every payload sent by the grace callback that handleTyping
\* scheduled for the current test has characters_typed >= len(prompt), also
\* when the input was shortened during the grace delay.
C32_GraceSubmitsCompletedInput ==
    (last.op = "grace" /\ last.sent /\ last.origin = last.test) =>
        last.payload.characters_typed >= Len(currentTest.prompt)

\* C35: at most one /submit request per test is in flight at any time.
C35_OneSubmissionInFlightPerTest ==
    \A r \in BagToSet(submitsInFlight) : CopiesIn(r, submitsInFlight) <= 1

\* C36: submitTest never sends a payload while the session is Armed: every
\* time_taken sent is measured from a recorded start moment.
C36_NoPayloadWhileArmed ==
    last.sent => (Started /\ last.payload.time_taken # SinceEpoch)

C33_AnimationsOneAtATime ==
    /\ \A i \in 1..Len(shown) : shown[i].event = i
    /\ \A i \in 1..(Len(shown) - 1) : shown[i + 1].at >= shown[i].at + 3000

\* C34: the activity feed holds at most 10 items, they are the items added
\* last, and the newest comes first.
C34_FeedKeepsNewestTen ==
    /\ Len(activityList) <= 10
    /\ Len(activityList) = Min(10, Len(feedHist))
    /\ \A i \in 1..Len(activityList) :
          activityList[i] = feedHist[Len(feedHist) - i + 1]

C34_Witness ==
    /\ Len(feedHist) = 11
    /\ Len(activityList) = 10
    /\ feedHist[1].text = "ann"
    /\ feedHist[2].text = "bob"
    /\ activityList[10] = feedHist[2]
    /\ activityList[1] = feedHist[11]

\* C38: for a most-recent-first history of more than 20 records the
\* progress chart of either component shows the 20 most recent sessions,
\* ordered oldest to newest.
C38_ProgressChartShowsLastTwenty ==
    (/\ result.fn = "createProgressChart"
     /\ result.value.drawn
     /\ Len(arg.history) > 20) =>
        /\ result.value.sessions = MostRecentLast(arg.history, 20)
        /\ result.value.data = WpmOf(MostRecentLast(arg.history, 20))

\* C39: for a history of 5 to 10 sessions whose average wpm is not zero,
\* calculateLearningCurve reports the learning rate 0 whatever the wpm
\* values are: its two windows hold the same sessions.
C39_ShortHistoryLearningRateZero ==
    (/\ result.fn = "calculateLearningCurve"
     /\ Len(arg.history) >= 5
     /\ Len(arg.history) <= 10
     /\ SumSeq(WpmOf(arg.history)) # 0) =>
        /\ ~result.value.skipped
        /\ result.value.learningRate = <<0, 1>>

C39_Witness ==
    /\ result.fn = "calculateLearningCurve"
    /\ Len(arg.history) = 7
    /\ arg.history[1].wpm = 80
    /\ arg.history[2].wpm = 0
    /\ arg.history[7].wpm = 0
    /\ result.value.learningRate = <<0, 1>>

====
